---- MODULE Spec2Model ----
(***************************************************************************)
(* Model of can_tools/scrapers/official/base.py (StateDashboard._insert_   *)
(* query, ArcGIS.get_all_sheet_to_df and its helpers) and of               *)
(* can_tools/scrapers/official/federal/CDC/driver.py.                      *)
(*                                                                         *)
(* Three specifications share the module, one per program entry point:    *)
(*   Spec        the ArcGIS pagination driver get_all_sheet_to_df          *)
(*   InsertSpec  StateDashboard._insert_query                              *)
(*   DriverSpec  the CDC driver script                                     *)
(* The variables of the other entry points stay at their initial values.   *)
(***************************************************************************)
EXTENDS Integers, Sequences, FiniteSets, TLC

VARIABLES
    \* ---- ArcGIS helper (base.py 96-279)
    heap,            \* object store: reference -> dict (Python dicts are shared by reference)
    initParams,      \* the dict handed to ArcGIS.__init__ (ghost: value at construction)
    curr_params,     \* local of get_all_sheet_to_df: reference of the per-call copy
    total_offset,    \* local: running count of features seen
    _dfs,            \* local: list of per-page DataFrames
    unbroken_chain,  \* local: value of res_json.get("exceededTransferLimit", False)
    requests,        \* HTTP log of the current call: params sent by requests.get, in order
    responses,       \* JSON bodies received during the current call, in order
    ret,             \* outcome of the current call: none / a DataFrame / a raised exception
    pc,              \* position in get_all_sheet_to_df
    prevPages,       \* ghost: number of requests the previous call on this helper issued (0: none)
    \* ---- StateDashboard._insert_query (base.py 11-83)
    has_location,    \* class attribute of the concrete scraper
    state_fips,      \* class attribute of the concrete scraper
    provider,        \* class attribute ("state", or "county" for CountyDashboard)
    df_columns,      \* list(df) of the last call
    out,             \* outcome of the last call: none / statement / raised ValueError
    \* ---- driver.py
    argv,            \* sys.argv[1:], the arguments after the program name
    dpc,             \* position in the script
    scraper,         \* the scraper object created (class name) or "none"
    fetched,         \* number of scraper.fetch() calls made
    files            \* set of files written (file names)

arcgisVars == <<heap, initParams, curr_params, total_offset, _dfs, unbroken_chain,
                requests, responses, ret, pc, prevPages>>
insertVars == <<has_location, state_fips, provider, df_columns, out>>
driverVars == <<argv, dpc, scraper, fetched, files>>
vars == <<arcgisVars, insertVars, driverVars>>

(***************************************************************************)
(* Bounds of the model                                                     *)
(***************************************************************************)
MaxPages == 3        \* requests modelled per call (the code has no bound)
MaxFeatures == 1     \* features per response
MaxArgs == 3         \* command-line arguments after the program name

(***************************************************************************)
(* Python dicts and JSON values                                            *)
(***************************************************************************)
\* dict.update({k: v})
DictUpdate(d, k, v) == [x \in DOMAIN d \cup {k} |-> IF x = k THEN v ELSE d[x]]

\* dict.get(k, default)
\* (faulty variant: the key is never looked up)
DictGetAlwaysDefault(d, k, default) == default
DictGet(d, k, default) == IF k \in DOMAIN d THEN d[k] ELSE default

\* Python truth value of a JSON boolean (JSON true/false parse to True/False)
\* (faulty variant: the test inverted)
TruthyNegated(v) == v = "false"
Truthy(v) == v = "true"

\* Default parameter values of ArcGIS.__init__
DefaultParams ==
    [f |-> "json", where |-> "1=1", outFields |-> "*", returnGeometry |-> "false"]

\* The params argument of ArcGIS.__init__: None (the defaults), or a caller's dict
ConstructorParams ==
    { DefaultParams,
      [f |-> "json", where |-> "state='CA'", resultOffset |-> 1] }

SelfParams == "self.params"     \* reference held by self.params
FreshDict == "copy"            \* reference of a newly allocated dict

\* dict.copy(): the reference of the result (a new object)
\* (faulty variant: no copy, the same object)
DictCopyAlias(ref) == ref
DictCopy(ref) == FreshDict

(***************************************************************************)
(* The server: ArcGIS query results                                        *)
(***************************************************************************)
Rows == {"r1", "r2"}                       \* attribute objects
Features == {[attributes |-> r, geometry |-> "g"] : r \in Rows}
FeatureLists == UNION {[1..n -> Features] : n \in 0..MaxFeatures}
Responses ==
    {[features |-> fl] : fl \in FeatureLists}
    \cup {[features |-> fl, exceededTransferLimit |-> v] :
              fl \in FeatureLists, v \in {"true", "false"}}

\* requests.get raises (transport), res.json() raises (body is not JSON)
FailureKinds == {"ConnectionError", "JSONDecodeError"}

NoReturn == [kind |-> "none"]

(***************************************************************************)
(* ArcGIS helper: pure parts                                               *)
(***************************************************************************)
\* arcgis_json_to_df: one row per feature, the feature's "attributes" object
\* (faulty variant: the wrong member of each feature)
ArcgisJsonToDfGeometry(res_json) ==
    [i \in 1..Len(res_json["features"]) |-> res_json["features"][i]["geometry"]]
arcgis_json_to_df(res_json) ==
    [i \in 1..Len(res_json["features"]) |-> res_json["features"][i]["attributes"]]

\* pd.concat(_dfs): the frames' rows, frame after frame
\* (faulty variant: the frames stacked last first)
RECURSIVE pd_concat_reversed(_)
pd_concat_reversed(frames) ==
    IF frames = <<>> THEN <<>>
    ELSE pd_concat_reversed(Tail(frames)) \o Head(frames)
RECURSIVE pd_concat(_)
pd_concat(frames) ==
    IF frames = <<>> THEN <<>> ELSE Head(frames) \o pd_concat(Tail(frames))

\* total_offset += len(res_json["features"])
\* (faulty variant: = instead of +=)
AddOffsetLastPageOnly(total, res_json) == Len(res_json["features"])
AddOffset(total, res_json) == total + Len(res_json["features"])

(***************************************************************************)
(* ArcGIS helper: get_all_sheet_to_df                                      *)
(***************************************************************************)
\* An exception raised inside get_res_json: nothing in get_all_sheet_to_df
\* catches it, so the call ends there and the caller sees the exception.
\* (faulty variant: the exception caught and the pages so far returned)
RaiseSwallowed(kind) ==
    /\ pc' = "done"
    /\ ret' = [kind |-> "df", rows |-> pd_concat(_dfs)]
    /\ UNCHANGED <<total_offset, _dfs, unbroken_chain, responses>>
Raise(kind) ==
    /\ pc' = "failed"
    /\ ret' = [kind |-> "raise", exc |-> kind]
    /\ UNCHANGED <<total_offset, _dfs, unbroken_chain, responses>>

\* Lines 254-263: copy the parameters, first request, first DataFrame
Call ==
    /\ pc \in {"idle", "done", "failed"}
    /\ prevPages' = Len(requests)
    /\ LET ref == DictCopy(SelfParams)
           heap1 == [o \in DOMAIN heap \cup {ref} |->
                        IF o = ref THEN heap[SelfParams] ELSE heap[o]]
       IN /\ curr_params' = ref
          /\ heap' = heap1
          /\ requests' = <<heap1[ref]>>
          /\ \/ \E kind \in FailureKinds :
                  /\ pc' = "failed"
                  /\ ret' = [kind |-> "raise", exc |-> kind]
                  /\ total_offset' = 0
                  /\ _dfs' = <<>>
                  /\ unbroken_chain' = "false"
                  /\ responses' = <<>>
             \/ \E res_json \in Responses :
                  /\ responses' = <<res_json>>
                  /\ total_offset' = Len(res_json["features"])
                  /\ _dfs' = <<arcgis_json_to_df(res_json)>>
                  /\ unbroken_chain' = DictGet(res_json, "exceededTransferLimit", "false")
                  /\ ret' = NoReturn
                  /\ pc' = "loop"
    /\ UNCHANGED <<initParams, insertVars, driverVars>>

\* Lines 264-274: one iteration of the while loop
NextPage ==
    /\ pc = "loop"
    /\ Truthy(unbroken_chain)
    /\ Len(requests) < MaxPages
    /\ LET heap1 == [heap EXCEPT ![curr_params] =
                        DictUpdate(@, "resultOffset", total_offset)]
       IN /\ heap' = heap1
          /\ requests' = Append(requests, heap1[curr_params])
          /\ \/ \E kind \in FailureKinds : Raise(kind)
             \/ \E res_json \in Responses :
                  /\ responses' = Append(responses, res_json)
                  /\ _dfs' = Append(_dfs, arcgis_json_to_df(res_json))
                  /\ total_offset' = AddOffset(total_offset, res_json)
                  /\ unbroken_chain' = DictGet(res_json, "exceededTransferLimit", "false")
                  /\ UNCHANGED <<ret, pc>>
    /\ UNCHANGED <<initParams, curr_params, prevPages, insertVars, driverVars>>

\* Lines 264, 276-279: the loop condition is false; stack the frames and return
Return ==
    /\ pc = "loop"
    /\ ~Truthy(unbroken_chain)
    /\ ret' = [kind |-> "df", rows |-> pd_concat(_dfs)]
    /\ pc' = "done"
    /\ UNCHANGED <<heap, initParams, curr_params, total_offset, _dfs, unbroken_chain,
                   requests, responses, prevPages, insertVars, driverVars>>

\* ArcGIS.__init__ (lines 110-122): self.params is the caller's dict or the defaults
InitArcGIS ==
    /\ initParams \in ConstructorParams
    /\ heap = [o \in {SelfParams} |-> initParams]
    /\ curr_params = SelfParams
    /\ total_offset = 0
    /\ _dfs = <<>>
    /\ unbroken_chain = "false"
    /\ requests = <<>>
    /\ responses = <<>>
    /\ ret = NoReturn
    /\ pc = "idle"
    /\ prevPages = 0

\* ---- placeholders for the other entry points (filled below)
InitInsertIdle ==
    /\ has_location = FALSE
    /\ state_fips = 1
    /\ provider = "state"
    /\ df_columns = {}
    /\ out = [kind |-> "none"]

InitDriverIdle ==
    /\ argv = <<"driver.py">>
    /\ dpc = "idle"
    /\ scraper = "none"
    /\ fetched = 0
    /\ files = {}

Init == InitArcGIS /\ InitInsertIdle /\ InitDriverIdle
Next == Call \/ NextPage \/ Return
Spec == Init /\ [][Next]_vars

\* The call runs on one thread with blocking I/O: once started it keeps
\* executing, so a loop iteration or the return that is possible is taken.
\* (Whether the caller starts another call is up to the caller.)
FairSpec == Spec /\ WF_vars(NextPage) /\ WF_vars(Return)

(***************************************************************************)
(* StateDashboard._insert_query                                            *)
(* A statement is the list of its lines (the text split at newlines).      *)
(***************************************************************************)
RECURSIVE Spaces(_)
Spaces(n) == IF n = 0 THEN "" ELSE " " \o Spaces(n - 1)

\* Number of leading blanks of a line
RECURSIVE LeadingSpaces(_)
LeadingSpaces(line) ==
    IF Len(line) = 0 \/ SubSeq(line, 1, 1) # " " THEN 0
    ELSE 1 + LeadingSpaces(SubSeq(line, 2, Len(line)))

IsBlank(line) == LeadingSpaces(line) = Len(line)

Min(S) == CHOOSE m \in S : \A x \in S : m <= x

\* textwrap.dedent: remove the leading whitespace common to all lines that
\* hold text; lines of whitespace only become empty
dedent(lines) ==
    LET textLines == {i \in 1..Len(lines) : ~IsBlank(lines[i])}
        margin == IF textLines = {} THEN 0
                  ELSE Min({LeadingSpaces(lines[i]) : i \in textLines})
    IN [i \in 1..Len(lines) |->
           IF IsBlank(lines[i]) THEN ""
           ELSE SubSeq(lines[i], margin + 1, Len(lines[i]))]

\* An f-string replacement field holding an int: its decimal digits
\* (faulty variant: the field left as literal text, as in a string without the f prefix)
FormatIntNotInterpolated(n) == "{self.state_fips}"
FormatInt(n) == ToString(n)

\* Lines 49-60: the f-string of the has_location branch
LocationTemplate(table_name, temp_name, self_provider, pk) ==
    << "",
       Spaces(12) \o "INSERT INTO data." \o table_name \o " (",
       Spaces(14) \o "vintage, dt, location, variable_id, demographic_id, value, provider",
       Spaces(12) \o ")",
       Spaces(12) \o "SELECT tt.vintage, tt.dt, tt.location, cv.id as variable_id,",
       Spaces(19) \o "cd.id as demographic_id, tt.value, cp.id",
       Spaces(12) \o "FROM " \o temp_name \o " tt",
       Spaces(12) \o "LEFT JOIN meta.covid_variables cv ON tt.category=cv.category AND tt.measurement=cv.measurement AND tt.unit=cv.unit",
       Spaces(12) \o "LEFT JOIN data.covid_providers cp ON '" \o self_provider \o "'=cp.name",
       Spaces(12) \o "INNER JOIN meta.covid_demographics cd ON tt.age=cd.age AND tt.race=cd.race AND tt.sex=cd.sex",
       Spaces(12) \o "ON CONFLICT " \o pk \o " DO UPDATE set value = excluded.value",
       Spaces(12) >>

\* Lines 62-77: the f-string of the county branch
CountyTemplate(table_name, temp_name, self_provider, fips, pk) ==
    << "",
       Spaces(12) \o "INSERT INTO data." \o table_name \o " (",
       Spaces(14) \o "vintage, dt, location, variable_id, demographic_id, value, provider",
       Spaces(12) \o ")",
       Spaces(12) \o "SELECT tt.vintage, tt.dt, loc.location, cv.id as variable_id,",
       Spaces(19) \o "cd.id as demographic_id, tt.value, cp.id",
       Spaces(12) \o "FROM " \o temp_name \o " tt",
       Spaces(12) \o "LEFT JOIN meta.locations loc on tt.county=loc.name",
       Spaces(12) \o "LEFT JOIN meta.location_type loct on loc.location_type=loct.id",
       Spaces(12) \o "LEFT JOIN meta.covid_variables cv ON tt.category=cv.category AND tt.measurement=cv.measurement AND tt.unit=cv.unit",
       Spaces(12) \o "LEFT JOIN data.covid_providers cp ON '" \o self_provider \o "'=cp.name",
       Spaces(12) \o "INNER JOIN meta.covid_demographics cd ON tt.age=cd.age AND tt.race=cd.race AND tt.sex=cd.sex",
       Spaces(12) \o "WHERE (loc.state = LPAD(" \o fips \o "::TEXT, 2, '0')) AND",
       Spaces(18) \o "(loct.name = 'county')",
       Spaces(12) \o "ON CONFLICT " \o pk \o " DO UPDATE SET value = excluded.value",
       Spaces(12) >>

ValueErrorRaised ==
    [kind |-> "ValueError",
     msg |-> "None of the expected geographies were included in the insert DataFrame"]

\* Lines 47-83. columns is list(df); the result is the statement or the raise
\* (faulty variant: the county test made first)
_insert_query_county_first(self_has_location, self_state_fips, self_provider, columns, table_name, temp_name, pk) ==
    IF "county" \in columns
    THEN [kind |-> "statement",
          lines |-> dedent(CountyTemplate(table_name, temp_name, self_provider,
                                          FormatInt(self_state_fips), pk))]
    ELSE IF self_has_location
    THEN [kind |-> "statement",
          lines |-> dedent(LocationTemplate(table_name, temp_name, self_provider, pk))]
    ELSE ValueErrorRaised
\* (faulty variant: no else branch, the county statement by default)
_insert_query_no_raise(self_has_location, self_state_fips, self_provider, columns, table_name, temp_name, pk) ==
    IF self_has_location
    THEN [kind |-> "statement",
          lines |-> dedent(LocationTemplate(table_name, temp_name, self_provider, pk))]
    ELSE [kind |-> "statement",
          lines |-> dedent(CountyTemplate(table_name, temp_name, self_provider,
                                          FormatInt(self_state_fips), pk))]
_insert_query(self_has_location, self_state_fips, self_provider, columns, table_name, temp_name, pk) ==
    IF self_has_location
    THEN [kind |-> "statement",
          lines |-> dedent(LocationTemplate(table_name, temp_name, self_provider, pk))]
    ELSE IF "county" \in columns
    THEN [kind |-> "statement",
          lines |-> dedent(CountyTemplate(table_name, temp_name, self_provider,
                                          FormatInt(self_state_fips), pk))]
    ELSE ValueErrorRaised

\* Column labels a result set may carry
ColumnNames == {"location", "county", "dt", "value"}

\* Lines 33-34: class attributes handed to _insert_query by the insertion mixin
TableNames == {"covid_official"}
PrimaryKey == "(\"vintage\", \"dt\", \"location\", \"variable_id\", \"demographic_id\")"
TempNames == {"temp_a", "temp_b"}

\* A concrete scraper sets has_location and state_fips (lines 26-29, 37-38);
\* provider is "state", or "county" for a CountyDashboard (lines 35, 93)
InitInsert ==
    /\ has_location \in BOOLEAN
    /\ state_fips \in {1, 6, 48}
    /\ provider \in {"state", "county"}
    /\ df_columns = {}
    /\ out = [kind |-> "none"]

\* One call of _insert_query on a result set
InsertQuery ==
    /\ \E columns \in SUBSET ColumnNames, table_name \in TableNames, temp_name \in TempNames :
          /\ df_columns' = columns
          /\ out' = _insert_query(has_location, state_fips, provider,
                                  columns, table_name, temp_name, PrimaryKey)
    /\ UNCHANGED <<has_location, state_fips, provider, arcgisVars, driverVars>>

InitArcGISIdle ==
    /\ initParams = DefaultParams
    /\ heap = [o \in {SelfParams} |-> initParams]
    /\ curr_params = SelfParams
    /\ total_offset = 0
    /\ _dfs = <<>>
    /\ unbroken_chain = "false"
    /\ requests = <<>>
    /\ responses = <<>>
    /\ ret = NoReturn
    /\ pc = "idle"
    /\ prevPages = 0

InsertInit == InitArcGISIdle /\ InitInsert /\ InitDriverIdle
InsertNext == InsertQuery
InsertSpec == InsertInit /\ [][InsertNext]_vars

(***************************************************************************)
(* driver.py                                                               *)
(***************************************************************************)
\* Python list indexing (0-based) on a TLA+ sequence
PyIndex(list, i) == list[i + 1]

\* Words a user may type after the program name
Words == {"moderna", "pfizer", "total", "csv", "CSV", "novavax"}

\* sys.argv: the program name, then up to MaxArgs words
ArgLists == UNION {[1..n -> Words] : n \in 0..MaxArgs}

\* Lines 26: the test that guards the CSV write
\* (faulty variant: the second argument tested instead of the last)
WantsCsvSecondArg(sys_argv) == Len(sys_argv) > 2 /\ PyIndex(sys_argv, 2) = "csv"
WantsCsv(sys_argv) == PyIndex(sys_argv, Len(sys_argv) - 1) = "csv"

\* Lines 6-19: pick the scraper from sys.argv[1], or print a message and quit()
Dispatch ==
    /\ dpc = "start"
    /\ IF Len(argv) = 1
       THEN /\ dpc' = "exited"
            /\ UNCHANGED scraper
       ELSE LET prompt == PyIndex(argv, 1)
            IN IF prompt = "moderna"
               THEN scraper' = "CDCVaccineModerna" /\ dpc' = "created"
               ELSE IF prompt = "pfizer"
               THEN scraper' = "CDCVaccinePfizer" /\ dpc' = "created"
               ELSE IF prompt = "total"
               THEN scraper' = "CDCVaccineTotal" /\ dpc' = "created"
               ELSE dpc' = "exited" /\ UNCHANGED scraper
    /\ UNCHANGED <<argv, fetched, files, arcgisVars, insertVars>>

\* Lines 21-24: fetch, normalize and print. The scraper's fetch is a network
\* call and any of these calls may raise; nothing in the script catches it.
FetchNormalize ==
    /\ dpc = "created"
    /\ fetched' = fetched + 1
    /\ \E outcome \in {"ok", "raise"} :
          dpc' = IF outcome = "ok" THEN "normalized" ELSE "crashed"
    /\ UNCHANGED <<argv, scraper, files, arcgisVars, insertVars>>

\* Lines 26-30: write <prompt>.csv when the last argument is "csv"
WriteCsv ==
    /\ dpc = "normalized"
    /\ IF WantsCsv(argv)
       THEN files' = files \cup {PyIndex(argv, 1) \o ".csv"}
       ELSE UNCHANGED files
    /\ dpc' = "done"
    /\ UNCHANGED <<argv, scraper, fetched, arcgisVars, insertVars>>

InitDriver ==
    /\ argv \in {<<"driver.py">> \o args : args \in ArgLists}
    /\ dpc = "start"
    /\ scraper = "none"
    /\ fetched = 0
    /\ files = {}

DriverInit == InitArcGISIdle /\ InitInsertIdle /\ InitDriver
DriverNext == Dispatch \/ FetchNormalize \/ WriteCsv
DriverSpec == DriverInit /\ [][DriverNext]_vars

(***************************************************************************)
(* Properties of get_all_sheet_to_df (checked under Spec)                  *)
(***************************************************************************)
\* What the claims say about a response, read off the JSON body itself
FlagSet(r) == "exceededTransferLimit" \in DOMAIN r /\ r["exceededTransferLimit"] = "true"
FeatureCount(r) == Len(r["features"])
Last(s) == s[Len(s)]

RECURSIVE SumCounts(_, _)
SumCounts(rs, k) == IF k = 0 THEN 0 ELSE SumCounts(rs, k - 1) + FeatureCount(rs[k])

RECURSIVE LeadingFlagged(_)
LeadingFlagged(rs) ==
    IF rs = <<>> \/ ~FlagSet(Head(rs)) THEN 0 ELSE 1 + LeadingFlagged(Tail(rs))

RECURSIVE ExpectedRows(_)
ExpectedRows(rs) ==
    IF rs = <<>> THEN <<>>
    ELSE [i \in 1..FeatureCount(Head(rs)) |-> Head(rs)["features"][i]["attributes"]]
         \o ExpectedRows(Tail(rs))

\* C1: the resultOffset sent on request k (k >= 2) is the sum of the feature
\* counts of responses 1 .. k-1 of the same call.
C1_OffsetIsRunningCount ==
    \A k \in 2..Len(requests) :
        /\ "resultOffset" \in DOMAIN requests[k]
        /\ requests[k]["resultOffset"] = SumCounts(responses, k - 1)

\* C1 witness: a third request whose offset (2) is the sum of two pages of one
\* feature each, and differs from the size of the last page alone.
C1_Witness ==
    /\ Len(requests) = 3
    /\ FeatureCount(responses[1]) = 1
    /\ FeatureCount(responses[2]) = 1
    /\ requests[2]["resultOffset"] = 1
    /\ requests[3]["resultOffset"] = 2

\* C2: with n the number of consecutive flagged responses from the start, the
\* call never issues more than n+1 requests, and when it has ended (returned
\* or raised) it has issued exactly n+1; it returns only on an unflagged
\* response.
C2_ExactlyNPlusOneRequests ==
    LET n == LeadingFlagged(responses)
    IN /\ Len(requests) <= n + 1
       /\ pc \in {"done", "failed"} => Len(requests) = n + 1
       /\ pc = "done" => Len(responses) = n + 1 /\ ~FlagSet(responses[n + 1])

\* C2 witness: two flagged responses, then one without the flag: 3 requests.
C2_Witness ==
    /\ pc = "done"
    /\ Len(requests) = 3
    /\ Len(responses) = 3
    /\ FlagSet(responses[1])
    /\ FlagSet(responses[2])
    /\ "exceededTransferLimit" \notin DOMAIN responses[3]

\* C3: the returned row set is the concatenation, in arrival order, of the
\* attributes objects of the features of every response of the call, and one
\* frame was kept per response.
C3_RowsAreConcatenation ==
    pc = "done" =>
        /\ ret["kind"] = "df"
        /\ ret["rows"] = ExpectedRows(responses)
        /\ Len(_dfs) = Len(responses)

\* C3 witness: three pages with different contents, returned in order.
C3_Witness ==
    /\ pc = "done"
    /\ Len(responses) = 3
    /\ ret["kind"] = "df"
    /\ ret["rows"] = <<"r1", "r2", "r2">>
    /\ \A i \in 1..3 : FeatureCount(responses[i]) = 1

\* C7: self.params always holds the keys and values given at construction, and
\* the first request of every call carries exactly those parameters.
C7_SelfParamsUnchanged ==
    /\ heap[SelfParams] = initParams
    /\ Len(requests) >= 1 => requests[1] = initParams

\* C7 witness: a second call, made after a call of three pages, whose first
\* request carries no resultOffset; the copy of that call has since been given
\* one, self.params has not.
C7_Witness ==
    /\ prevPages = 3
    /\ Len(requests) = 2
    /\ "resultOffset" \notin DOMAIN requests[1]
    /\ "resultOffset" \in DOMAIN heap[curr_params]
    /\ "resultOffset" \notin DOMAIN heap[SelfParams]

\* State part of C9: the call returns only right after a response without a truthy flag,
\* all earlier ones being flagged; after such a response returning is the only
\* step it can take; after a flagged response it cannot return and its only
\* step is the next request (up to the model's MaxPages); an empty flagged
\* page leaves the next offset equal to the previous one.
C9_Steps ==
    /\ pc = "done" =>
          /\ responses # <<>>
          /\ ~FlagSet(Last(responses))
          /\ \A i \in 1..(Len(responses) - 1) : FlagSet(responses[i])
    /\ (pc = "loop" /\ ~FlagSet(Last(responses))) =>
          ENABLED Return /\ ~ENABLED NextPage
    /\ (pc = "loop" /\ FlagSet(Last(responses))) =>
          /\ ~ENABLED Return
          /\ Len(requests) < MaxPages => ENABLED NextPage
    /\ \A k \in 3..Len(requests) :
          FeatureCount(responses[k - 1]) = 0 =>
              requests[k]["resultOffset"] = requests[k - 1]["resultOffset"]

\* C9: the call terminates iff the server eventually answers without a truthy
\* flag: C9_Steps always holds, an unflagged response leads to the return, and
\* after a flagged response the call never rests: it goes on requesting until
\* a request fails, an unflagged response lets it return, or the model's
\* MaxPages requests are out.
C9_TerminatesIffUnflagged ==
    /\ []C9_Steps
    /\ (pc = "loop" /\ ~FlagSet(Last(responses))) ~> (pc = "done")
    /\ (pc = "loop" /\ FlagSet(Last(responses)) /\ Len(requests) < MaxPages)
          ~> (pc \in {"done", "failed"} \/ Len(requests) = MaxPages)

\* C9 witness: every response so far flagged, the second one empty: the call
\* is still running and has repeated the offset.
C9_Witness ==
    /\ pc = "loop"
    /\ Len(requests) = 3
    /\ \A i \in 1..3 : FlagSet(responses[i])
    /\ FeatureCount(responses[1]) = 1
    /\ FeatureCount(responses[2]) = 0
    /\ requests[3]["resultOffset"] = 1
    /\ requests[2]["resultOffset"] = 1

\* C10: when a request gets no response (transport or JSON failure), the call
\* has ended by raising that failure, returned no DataFrame, issued that
\* request once and can issue no further request nor return.
C10_FailurePropagates ==
    Len(requests) > Len(responses) =>
        /\ pc = "failed"
        /\ ret["kind"] = "raise"
        /\ ret["exc"] \in FailureKinds
        /\ Len(requests) = Len(responses) + 1
        /\ ~ENABLED NextPage
        /\ ~ENABLED Return

\* C10 witness: a JSON failure on the third request, after two pages of rows.
C10_Witness ==
    /\ pc = "failed"
    /\ Len(requests) = 3
    /\ Len(responses) = 2
    /\ FeatureCount(responses[1]) > 0
    /\ ret = [kind |-> "raise", exc |-> "JSONDecodeError"]

(***************************************************************************)
(* Properties of _insert_query (checked under InsertSpec)                  *)
(***************************************************************************)
\* sub occurs in text
Contains(text, sub) ==
    \E i \in 1..(Len(text) - Len(sub) + 1) : SubSeq(text, i, i + Len(sub) - 1) = sub

\* sub occurs in some line of the statement
StatementContains(stmt, sub) ==
    \E i \in 1..Len(stmt["lines"]) : Contains(stmt["lines"][i], sub)

IsLocationLevel(stmt) ==
    /\ stmt["kind"] = "statement"
    /\ StatementContains(stmt, "SELECT tt.vintage, tt.dt, tt.location,")
    /\ ~StatementContains(stmt, "meta.locations")
    /\ ~StatementContains(stmt, "meta.location_type")
    /\ ~StatementContains(stmt, "loc.")
    /\ ~StatementContains(stmt, "loct.")
    /\ ~StatementContains(stmt, "WHERE")

\* C4: whenever has_location is true, the result is the location-level
\* statement (tt.location selected directly, no join to meta.locations or
\* meta.location_type, no state filter), whatever the columns of the result set.
C4_LocationFirst ==
    (has_location /\ out["kind"] # "none") => IsLocationLevel(out)

\* C4 witness: has_location is true and the result set also has a county column.
C4_Witness ==
    /\ has_location
    /\ "county" \in df_columns
    /\ "location" \notin df_columns
    /\ IsLocationLevel(out)

\* C5 as stated: for every configuration, a result set with neither a location
\* column nor a county column makes _insert_query raise ValueError.
C5_NeitherColumnAlwaysFails ==
    (out["kind"] # "none" /\ "location" \notin df_columns /\ "county" \notin df_columns)
        => out["kind"] = "ValueError"

\* C5 amended: when has_location is false, a result set with neither a location
\* column nor a county column makes _insert_query raise ValueError, whatever
\* its other columns; when has_location is true the same result set gets the
\* location-level statement.
C5_NeitherColumnFailsWithoutFlag ==
    (out["kind"] # "none" /\ "location" \notin df_columns /\ "county" \notin df_columns)
        => IF has_location THEN IsLocationLevel(out) ELSE out = ValueErrorRaised

\* C5 witness: has_location false, other columns present, ValueError raised.
C5_Witness ==
    /\ ~has_location
    /\ df_columns = {"dt", "value"}
    /\ out["kind"] = "ValueError"

\* C6: when has_location is false and the result set has a county column, the
\* result is the county-level statement: joins to meta.locations by county name
\* and to meta.location_type, and the filter loc.state = LPAD(<state_fips>::TEXT,
\* 2, '0') AND loct.name = 'county', with the scraper's own state_fips.
C6_CountyStatement ==
    (~has_location /\ "county" \in df_columns /\ out["kind"] # "none") =>
        /\ out["kind"] = "statement"
        /\ StatementContains(out, "SELECT tt.vintage, tt.dt, loc.location,")
        /\ StatementContains(out, "LEFT JOIN meta.locations loc on tt.county=loc.name")
        /\ StatementContains(out,
              "LEFT JOIN meta.location_type loct on loc.location_type=loct.id")
        /\ \E i \in 1..(Len(out["lines"]) - 1) :
              /\ out["lines"][i] =
                    CASE state_fips = 1 -> "WHERE (loc.state = LPAD(1::TEXT, 2, '0')) AND"
                      [] state_fips = 6 -> "WHERE (loc.state = LPAD(6::TEXT, 2, '0')) AND"
                      [] state_fips = 48 -> "WHERE (loc.state = LPAD(48::TEXT, 2, '0')) AND"
              /\ out["lines"][i + 1] = "      (loct.name = 'county')"

\* C6 witness: a county-level statement filtered on state 48.
C6_Witness ==
    /\ ~has_location
    /\ state_fips = 48
    /\ "county" \in df_columns
    /\ "location" \in df_columns
    /\ out["kind"] = "statement"
    /\ StatementContains(out, "LPAD(48::TEXT, 2, '0')")

(***************************************************************************)
(* Properties of the driver script (checked under DriverSpec)              *)
(***************************************************************************)
Selectors == {"moderna", "pfizer", "total"}
Ended == dpc \in {"exited", "crashed", "done"}
FirstArg == argv[2]
LastArg == argv[Len(argv)]
ArgsAskForCsv == Len(argv) >= 2 /\ FirstArg \in Selectors /\ LastArg = "csv"

\* Without an argument, or with an unrecognized first one, the script exits
\* before any scraper is created, any fetch is made or any file is written.
ExitsEarlyOnBadArgs ==
    (dpc # "start" /\ (Len(argv) = 1 \/ FirstArg \notin Selectors)) =>
        /\ dpc = "exited"
        /\ scraper = "none"
        /\ fetched = 0
        /\ files = {}

\* Any file written is <first argument>.csv, and one is written only when the
\* first argument is a selector and the last one is "csv".
WritesOnlyOnRequest ==
    /\ files # {} => ArgsAskForCsv
    /\ \A fl \in files :
          \E w \in Selectors :
              /\ FirstArg = w
              /\ fl = (CASE w = "moderna" -> "moderna.csv"
                         [] w = "pfizer" -> "pfizer.csv"
                         [] w = "total" -> "total.csv")

====
